---- MODULE Spec2Model ----
(***************************************************************************)
(* PG Data Explorer: the application shell (MainWindow), the preference    *)
(* store (Config), the connection service (connect_to_db), the query       *)
(* editor (QueryEditor) and the views fed by a query execution.            *)
(*                                                                         *)
(* The program is single threaded and event driven: every action below is *)
(* one handler run to completion on the UI thread.                         *)
(***************************************************************************)
EXTENDS Integers, Sequences, FiniteSets, TLC

(***************************************************************************)
(* Bounds of the model                                                     *)
(***************************************************************************)
\* sessions the driver hands out in one run of the shell
MaxSessions == 2
\* direct calls of the preference store in one run of SpecConfig
MaxAdds == 2

(***************************************************************************)
(* Program constants                                                       *)
(***************************************************************************)
\* recent = recent[:10]
RecentCap == 10
\* history = history[:50]
HistoryCap == 50
\* defaults["query_limit"]
DefaultQueryLimit == 100

None == 0

(***************************************************************************)
(* Values                                                                  *)
(***************************************************************************)
\* A text is the sequence of its characters. The texts typed into the editor:
\* nothing, a blank, a statement, and the same statement between blanks.
Texts == {<<>>, <<" ">>, <<"a">>, <<" ", "a", " ">>}

RECURSIVE LStrip(_)
LStrip(t) == IF t # <<>> /\ Head(t) = " " THEN LStrip(Tail(t)) ELSE t

RECURSIVE RStrip(_)
RStrip(t) ==
    IF t # <<>> /\ t[Len(t)] = " " THEN RStrip(SubSeq(t, 1, Len(t) - 1)) ELSE t

\* str.strip()
Strip(t) == RStrip(LStrip(t))

Min(S) == CHOOSE x \in S : \A y \in S : x <= y
Max(S) == CHOOSE x \in S : \A y \in S : y <= x

\* the pieces of a text between the occurrences of sep
RECURSIVE Split(_, _)
Split(text, sep) ==
    IF \A i \in 1..Len(text) : text[i] # sep THEN <<text>>
    ELSE LET i == Min({j \in 1..Len(text) : text[j] = sep})
         IN  <<SubSeq(text, 1, i - 1)>> \o Split(SubSeq(text, i + 1, Len(text)), sep)

\* the n-th of the query strings handed to the preference store in SpecConfig
Glyph == <<"a", "b", "c", "d">>

QueryText(n) ==
    <<Glyph[((n \div 16) % 4) + 1], Glyph[((n \div 4) % 4) + 1], Glyph[(n % 4) + 1]>>

\* the first, the second and the last string of a full history, and two new ones
ConfigQueries ==
    {QueryText(n) : n \in {1, 2, HistoryCap, HistoryCap + 1, HistoryCap + 2}}

\* connection details as ConnectionDialog.get_connection_details returns them
Details(host, port, dbname, user, password) ==
    [host |-> host, port |-> port, dbname |-> dbname, user |-> user,
     password |-> password]

Passwords == {"p", "q"}

\* the profiles entered in the connection dialog
ShellProfiles == {Details("localhost", 5432, d, "u", "p") : d \in {"test", "prod"}}

\* the k-th profile handed to the preference store in SpecConfig
Profile(k, pw) == Details("localhost", 5431 + k, "test", "u", pw)

\* the first, the second and the last profile of a full list, and two new ones
ConfigProfiles ==
    {Profile(k, pw) : k \in {1, 2, RecentCap, RecentCap + 1, RecentCap + 2},
                      pw \in Passwords}

NoProfile == Details("", 0, "", "", "")

\* a cell value of a result set: None, an int or a str; v is str(value), a
\* text like every other text of the model
Null == [t |-> "null", v |-> <<>>]
IntV(s) == [t |-> "int", v |-> s]
StrV(s) == [t |-> "str", v |-> s]

Red == <<"r", "e", "d">>
Blue == <<"b", "l", "u", "e">>

ResultSets ==
    { [columns |-> <<"a">>, rows |-> <<>>],
      [columns |-> <<"a", "b">>,
       rows |-> << <<StrV(Red), Null>>, <<StrV(Blue), IntV(<<"5">>)>> >>] }

\* QStandardItemModel after clear(): no header, no items, nothing selected
EmptyResult == [columns |-> <<>>, rows |-> <<>>, selected |-> {}]

(***************************************************************************)
(* The database driver (psycopg2), seen from the calls the program makes.  *)
(* A session is "ready" (usable), "inerror" (its transaction failed: the   *)
(* connection is opened without autocommit, so the driver refuses every    *)
(* statement until a rollback), "closed", or "unborn" (not handed out).    *)
(***************************************************************************)
SessionIds == 1..MaxSessions

\* what psycopg2.connect does for one attempt
ConnectOutcomes == {"ok", "OperationalError", "Exception"}

\* What a statement does on a ready session: it succeeds, exposing column
\* metadata (description) and rows or only a row count, or it raises and
\* leaves the session in the state `after`.
Statements ==
    { [kind |-> "ok", description |-> r.columns, rows |-> r.rows, rowcount |-> Len(r.rows),
       after |-> "ready"] : r \in ResultSets }
    \cup { [kind |-> "ok", description |-> <<>>, rows |-> <<>>, rowcount |-> n,
            after |-> "ready"] : n \in {0, 1} }
    \cup { [kind |-> "error", description |-> <<>>, rows |-> <<>>, rowcount |-> 0 - 1,
            after |-> a] : a \in {"ready", "inerror", "closed"} }

NoStmt ==
    [kind |-> "none", description |-> <<>>, rows |-> <<>>, rowcount |-> 0, after |-> "ready"]

\* cursor = connection.cursor(); cursor.execute(query) on a session in state st
DriverRaises(st, stmt) == st # "ready" \/ stmt.kind = "error"

DriverAfter(st, stmt) == IF st = "ready" THEN stmt.after ELSE st

(***************************************************************************)
(* Config: the preference store                                            *)
(***************************************************************************)
\* seq[:n]
Take(seq, n) == SubSeq(seq, 1, IF Len(seq) < n THEN Len(seq) ELSE n)

\* self.defaults, as load() returns it when there is no file
DefaultConfig ==
    [recent_connections |-> <<>>, query_history |-> <<>>,
     query_limit |-> DefaultQueryLimit]

\* a copy that keeps the password it was given
C3_KeepPassword(details) == details

\* connection_copy = connection_details.copy(); connection_copy["password"] = ""
ClearPassword(details) == [details EXCEPT !.password = ""]

\* the comparison of host, port, dbname and user in the list comprehension
SameKey(c, d) ==
    /\ c.host = d.host
    /\ c.port = d.port
    /\ c.dbname = d.dbname
    /\ c.user = d.user

\* a list from which no entry is removed
C5_KeepExisting(recent, copy) == recent

\* recent = [c for c in recent if not (...same key...)]
RemoveExisting(recent, copy) == SelectSeq(recent, LAMBDA c : ~SameKey(c, copy))

\* a store that appends the profile and cuts the list one entry later
C6_AppendRecent(cfg, details) ==
    LET copy == ClearPassword(details)
        recent == Append(RemoveExisting(cfg.recent_connections, copy), copy)
    IN  [cfg EXCEPT !.recent_connections = Take(recent, RecentCap + 1)]

\* Config.add_recent_connection, up to the save
add_recent_connection(cfg, details) ==
    LET copy == ClearPassword(details)
        recent == <<copy>> \o RemoveExisting(cfg.recent_connections, copy)
    IN  [cfg EXCEPT !.recent_connections = Take(recent, RecentCap)]

\* x in seq
Contains(seq, x) == \E i \in 1..Len(seq) : seq[i] = x

\* list.remove(x): drops the first occurrence
RECURSIVE RemoveFirst(_, _)
RemoveFirst(seq, x) ==
    IF seq = <<>> THEN <<>>
    ELSE IF Head(seq) = x THEN Tail(seq)
    ELSE <<Head(seq)>> \o RemoveFirst(Tail(seq), x)

\* a store that inserts the string without removing an earlier occurrence
C7_InsertOnly(cfg, query) ==
    [cfg EXCEPT !.query_history = Take(<<query>> \o cfg.query_history, HistoryCap)]

\* Config.add_query_history, up to the save
add_query_history(cfg, query) ==
    LET history == IF Contains(cfg.query_history, query)
                   THEN RemoveFirst(cfg.query_history, query)
                   ELSE cfg.query_history
    IN  [cfg EXCEPT !.query_history = Take(<<query>> \o history, HistoryCap)]

\* a store whose set leaves the dictionary as it was
C20_Ignore(cfg, key, value) == cfg

\* Config.set, up to the save: self.config[key] = value, which adds a key
\* the dictionary does not hold yet
config_set(cfg, key, value) ==
    CASE key = "recent_connections" -> [cfg EXCEPT !.recent_connections = value]
      [] key = "query_history" -> [cfg EXCEPT !.query_history = value]
      [] key = "query_limit" -> [cfg EXCEPT !.query_limit = value]
      [] OTHER -> [k \in DOMAIN cfg \cup {key} |-> IF k = key THEN value ELSE cfg[k]]

\* Config.get(key, default=None): self.config.get(key, default)
config_get(cfg, key) == IF key \in DOMAIN cfg THEN cfg[key] ELSE None

\* Config.save: json.dump of the whole configuration; a failure is printed
\* and swallowed, leaving the file as it was
save(cfg, old_file, written) == IF written THEN cfg ELSE old_file

(***************************************************************************)
(* connect_to_db: every failure of the driver leaves as ConnectionError    *)
(***************************************************************************)
\* a service that lets an unexpected error of the driver through
C4_LeakUnexpected(outcome) ==
    CASE outcome = "ok" -> "ok"
      [] outcome = "OperationalError" -> "ConnectionError"
      [] OTHER -> "Exception"

\* connect_to_db: "ok" stands for the connection object it returns
connect_to_db(outcome) ==
    CASE outcome = "ok" -> "ok"
      [] outcome = "OperationalError" -> "ConnectionError"
      [] OTHER -> "ConnectionError"

(***************************************************************************)
(* State                                                                   *)
(***************************************************************************)
VARIABLES
    db_connection,   \* MainWindow.db_connection: None or a session
    sessions,        \* the driver's state of every session
    query_editor,    \* QueryEditor.connection
    schema_browser,  \* SchemaBrowser: its connection and its tree
    results_view,    \* ResultsView.model: header labels and rows
    viz_data,        \* VisualizationView.data_df
    right_panel,     \* index of the current tab: 0 query, 1 visualization
    config,          \* Config.config, the configuration in memory
    file,            \* the configuration last written to config.json
    recent_menu,     \* the data of the actions of the recent-connections menu
    lastOp,          \* the last handler: its inputs, and what it showed the user
    prevOp,          \* history: the call before it in SpecConfig
    steps            \* history: calls made so far in SpecConfig

vars ==
    <<db_connection, sessions, query_editor, schema_browser, results_view, viz_data,
      right_panel, config, file, recent_menu, lastOp, prevOp, steps>>

shell_vars ==
    <<db_connection, sessions, query_editor, schema_browser, results_view, viz_data,
      right_panel, recent_menu>>

\* VisualizationView after setup_ui: no table, no types, empty axis selectors,
\* a group selector holding only "None", the first chart type and colour map,
\* and the placeholder label shown
NoTable ==
    [held |-> FALSE, columns |-> <<>>, rows |-> <<>>, types |-> <<>>,
     items |-> <<>>, x |-> "", y |-> "", group |-> "None", title |-> <<>>,
     x_label |-> "", y_label |-> "", chart_type |-> "Bar Chart", cmap |-> "Viridis", placeholder |-> TRUE]

\* op: the handler; result: how it ended; message: the title of the message
\* box it showed; n: the number in the editor's status line; driver: what the
\* driver did; profile, query: the inputs
Op(op, result, msg, n, driver, profile, query) ==
    [op |-> op, result |-> result, message |-> msg, n |-> n, driver |-> driver,
     profile |-> profile, query |-> query]

NoOp == Op("init", "", "", 0, "", NoProfile, <<>>)

\* lastOp' of a handler of the shell
Log(op, result, msg, driver) ==
    /\ lastOp' = Op(op, result, msg, 0, driver, NoProfile, <<>>)
    /\ UNCHANGED prevOp

\* MainWindow.__init__ on a first start: no file, the defaults are loaded
Init ==
    /\ db_connection = None
    /\ sessions = [s \in SessionIds |-> "unborn"]
    /\ query_editor = None
    /\ schema_browser = [connection |-> None, tree |-> "empty"]
    /\ results_view = EmptyResult
    /\ viz_data = NoTable
    /\ right_panel = 0
    /\ config = DefaultConfig
    /\ file = DefaultConfig
    /\ recent_menu = <<>>
    /\ lastOp = NoOp
    /\ prevOp = NoOp
    /\ steps = 0

(***************************************************************************)
(* The views                                                               *)
(***************************************************************************)
\* the text "NULL" that stands for None in the grid
NullText == <<"N", "U", "L", "L">>

\* the QStandardItem of a cell: setText gives the display role, setData the
\* user role
Item(value) ==
    [text |-> IF value = Null THEN NullText ELSE value.v, user |-> value]

\* the values of the user role of all items
UserRows(view) ==
    [r \in 1..Len(view.rows) |-> [c \in 1..Len(view.rows[r]) |-> view.rows[r][c].user]]

\* ResultsView.display_results: the model is cleared; without columns it
\* stays empty, otherwise it gets the header labels and one row per data row
display_results(columns, data) ==
    IF columns = <<>> THEN EmptyResult
    ELSE [columns |-> columns,
          rows |-> [r \in 1..Len(data) |-> [c \in 1..Len(data[r]) |-> Item(data[r][c])]],
          selected |-> {}]

Digit ==
    [c \in {"0", "1", "2", "3", "4", "5", "6", "7", "8", "9"} |->
        CASE c = "0" -> 0 [] c = "1" -> 1 [] c = "2" -> 2 [] c = "3" -> 3 [] c = "4" -> 4
          [] c = "5" -> 5 [] c = "6" -> 6 [] c = "7" -> 7 [] c = "8" -> 8 [] c = "9" -> 9]

IsDigits(t) == t # <<>> /\ \A i \in 1..Len(t) : t[i] \in DOMAIN Digit

RECURSIVE Num(_)
Num(t) == IF t = <<>> THEN 0 ELSE 10 * Num(SubSeq(t, 1, Len(t) - 1)) + Digit[t[Len(t)]]

IsLeap(y) == (y % 4 = 0 /\ y % 100 # 0) \/ y % 400 = 0

DaysIn(y, m) ==
    IF m = 2 THEN (IF IsLeap(y) THEN 29 ELSE 28)
    ELSE IF m \in {4, 6, 9, 11} THEN 30 ELSE 31

\* datetime.strptime(sample, "%Y-%m-%d") returns: four digits, one or two
\* digits, one or two digits, and a date of the calendar
ParsesAsDate(t) ==
    LET p == Split(t, "-") IN
    /\ Len(p) = 3
    /\ Len(p[1]) = 4 /\ IsDigits(p[1]) /\ Num(p[1]) >= 1
    /\ Len(p[2]) \in {1, 2} /\ IsDigits(p[2]) /\ Num(p[2]) \in 1..12
    /\ Len(p[3]) \in {1, 2} /\ IsDigits(p[3])
    /\ Num(p[3]) \in 1..DaysIn(Num(p[1]), Num(p[2]))

\* the values of column c of the rows
Column(data, c) == [r \in 1..Len(data) |-> data[r][c]]

\* series.dropna()
DropNa(values) == SelectSeq(values, LAMBDA v : v # Null)

\* pd.api.types.is_numeric_dtype of a column built from Python values: ints,
\* with or without None, give a numeric dtype; any str, or None only, object
IsNumericDtype(values) ==
    /\ DropNa(values) # <<>>
    /\ \A i \in 1..Len(values) : values[i].t \in {"int", "null"}

\* an inference that looks at the first value of the column only
C16_FirstValueOnly(values) ==
    IF values[1].t = "int" THEN "numeric"
    ELSE IF values[1].t = "str" /\ ParsesAsDate(values[1].v) THEN "date"
    ELSE "categorical"

\* the tag infer_column_types gives a column
InferTag(values) ==
    IF IsNumericDtype(values) THEN "numeric"
    ELSE LET present == DropNa(values)
         IN  IF present # <<>> /\ Head(present).t = "str" /\ Head(present).v # <<>>
                /\ ParsesAsDate(Head(present).v)
             THEN "date"
             ELSE "categorical"

\* VisualizationView.infer_column_types: self.column_types, in column order
infer_column_types(columns, data) ==
    [c \in 1..Len(columns) |-> [name |-> columns[c], tag |-> InferTag(Column(data, c))]]

\* a search that finds no item
C27_NeverFound(items, text) == FALSE

\* combo.findText(text) >= 0
HasItem(items, text) == \E i \in 1..Len(items) : items[i] = text

\* a default that is the selector's first item whatever the types
C15_FirstColumn(types, tags) == types[1].name

\* the first column of column_types whose tag is one of tags; the selector's
\* first item, current since the selector was filled, if there is none
FirstTagged(types, tags) ==
    IF \E i \in 1..Len(types) : types[i].tag \in tags
    THEN types[Min({i \in 1..Len(types) : types[i].tag \in tags})].name
    ELSE types[1].name

\* VisualizationView.update_column_selectors on a view that holds a table
update_column_selectors(view) ==
    LET x_current == IF view.items # <<>> THEN view.x ELSE ""
        y_current == IF view.items # <<>> THEN view.y ELSE ""
        x == IF x_current # "" /\ HasItem(view.columns, x_current) THEN x_current
             ELSE FirstTagged(view.types, {"categorical", "date"})
        y == IF y_current # "" /\ HasItem(view.columns, y_current) THEN y_current
             ELSE FirstTagged(view.types, {"numeric"})
        group == IF HasItem(<<"None">> \o view.columns, view.group) THEN view.group
                 ELSE "None"
    IN  [view EXCEPT !.items = view.columns, !.x = x, !.y = y, !.group = group,
                     !.title = <<y, " by ", x>>, !.x_label = x, !.y_label = y]

\* VisualizationView.set_data, up to its update_chart: without columns or
\* rows the table is dropped and the placeholder shown; otherwise the table
\* is held, the types are inferred and the selectors updated
set_data(columns, data) ==
    IF columns = <<>> \/ data = <<>>
    THEN [viz_data EXCEPT !.held = FALSE, !.columns = <<>>, !.rows = <<>>,
                          !.placeholder = TRUE]
    ELSE update_column_selectors(
             [viz_data EXCEPT !.held = TRUE, !.columns = columns, !.rows = data,
                              !.types = infer_column_types(columns, data),
                              !.placeholder = FALSE])

\* whether set_data reaches its call of infer_column_types
Inferring(columns, data) == IF columns = <<>> \/ data = <<>> THEN "" ELSE "inferred"

\* MainWindow.on_query_executed, the slot of QueryEditor.queryExecuted
on_query_executed(columns, data) ==
    /\ results_view' = display_results(columns, data)
    /\ viz_data' = IF columns # <<>> /\ data # <<>> THEN set_data(columns, data)
                   ELSE viz_data

(***************************************************************************)
(* Connecting                                                              *)
(***************************************************************************)
\* an editor that keeps the connection it has
C29_KeepConnection(connection) == query_editor

\* QueryEditor.set_connection: self.connection = connection
set_connection(connection) == connection

\* the session psycopg2.connect returns: one not handed out before
Fresh == CHOOSE s \in SessionIds : sessions[s] = "unborn" /\
                                   \A r \in SessionIds : r < s => sessions[r] # "unborn"

\* what the catalog query of populate_schema does on the new session
CatalogOutcomes == {"ok", "inerror", "closed"}

\* the try block shared by open_connection_dialog and connect_to_recent:
\* connect_to_db, then setup_connected_state and add_to_recent_connections
Connect(op, details, outcome, catalog) ==
    LET r == connect_to_db(outcome) IN
    IF r = "ok" THEN
        /\ \E s \in SessionIds : sessions[s] = "unborn"
        /\ db_connection' = Fresh
        /\ sessions' = [sessions EXCEPT ![Fresh] = IF catalog = "ok" THEN "ready" ELSE catalog]
        /\ schema_browser' = [connection |-> Fresh,
                              tree |-> IF catalog = "ok" THEN "schemas" ELSE "empty"]
        /\ query_editor' = set_connection(Fresh)
        /\ results_view' = EmptyResult
        /\ config' = add_recent_connection(config, details)
        /\ file' = save(config', file, TRUE)
        /\ recent_menu' = config'.recent_connections
        /\ Log(op, "connected", IF catalog = "ok" THEN "" ELSE "Error Loading Schema",
               outcome)
        /\ UNCHANGED <<viz_data, right_panel, steps>>
    ELSE
        /\ catalog = "ok"
        /\ Log(op, r, IF r = "ConnectionError" THEN "Connection Error" ELSE "Error", outcome)
        /\ UNCHANGED <<db_connection, sessions, query_editor, schema_browser, results_view,
                       viz_data, right_panel, config, file, recent_menu, steps>>

\* a handler that returns early or only shows a message
Only(op, result, msg) ==
    /\ Log(op, result, msg, "")
    /\ UNCHANGED <<db_connection, sessions, query_editor, schema_browser, results_view,
                   viz_data, right_panel, config, file, recent_menu, steps>>

\* MainWindow.open_connection_dialog
open_connection_dialog(accepted, details, outcome, catalog) ==
    IF db_connection # None THEN
        /\ accepted /\ outcome = "ok" /\ catalog = "ok"
        /\ Only("open_connection_dialog", "rejected", "Already Connected")
    ELSE IF ~accepted THEN
        /\ outcome = "ok" /\ catalog = "ok"
        /\ Only("open_connection_dialog", "cancelled", "")
    ELSE Connect("open_connection_dialog", details, outcome, catalog)

\* MainWindow.connect_to_recent, triggered by the i-th action of the menu.
\* QAction.setData keeps a QVariant: a dict with string keys is stored as a
\* QVariantMap and data() builds a new dict from it, so the password the
\* handler writes into conn_details reaches neither the menu nor the
\* configuration.
connect_to_recent(i, ok, password, outcome, catalog) ==
    /\ i \in 1..Len(recent_menu)
    /\ IF ~ok THEN
           /\ outcome = "ok" /\ catalog = "ok"
           /\ Only("connect_to_recent", "cancelled", "")
       ELSE Connect("connect_to_recent", [recent_menu[i] EXCEPT !.password = password],
                    outcome, catalog)

\* MainWindow.disconnect_database; close() returns or raises, and a close
\* that raised may or may not have released the session
disconnect_database(closed, released) ==
    IF db_connection = None THEN
        /\ closed /\ released
        /\ Only("disconnect_database", "not_connected", "")
    ELSE IF closed THEN
        /\ released
        /\ sessions' = [sessions EXCEPT ![db_connection] = "closed"]
        /\ db_connection' = None
        /\ schema_browser' = [schema_browser EXCEPT !.tree = "empty"]
        /\ query_editor' = set_connection(None)
        /\ results_view' = EmptyResult
        /\ Log("disconnect_database", "disconnected", "", "")
        /\ UNCHANGED <<viz_data, right_panel, config, file, recent_menu, steps>>
    ELSE
        /\ sessions' = [sessions EXCEPT ![db_connection] = IF released THEN "closed" ELSE @]
        /\ Log("disconnect_database", "close_raised", "Disconnection Error", "")
        /\ UNCHANGED <<db_connection, query_editor, schema_browser, results_view, viz_data,
                       right_panel, config, file, recent_menu, steps>>

(***************************************************************************)
(* Executing a query                                                       *)
(***************************************************************************)
\* a choice made from the first character of the SQL text
C10_ByText(query, description) == query # <<>> /\ Head(query) = "a"

\* if cursor.description: the statement exposes column metadata
ReturnsResults(query, description) == description # <<>>

\* QueryEditor.execute_query on the text of the editor, called by handler
\* op; stmt is what the driver does with the statement
EditorExecute(op, text, stmt) ==
    LET query == Strip(text)
        Report(result, msg, n) ==
            /\ lastOp' = Op(op, result, msg, n, stmt.kind, NoProfile, query)
            /\ UNCHANGED prevOp
    IN
    IF query_editor = None THEN
        /\ Report("Not connected", "", 0)
        /\ UNCHANGED <<sessions, results_view, viz_data>>
    ELSE IF query = <<>> THEN
        /\ Report("No query", "", 0)
        /\ UNCHANGED <<sessions, results_view, viz_data>>
    ELSE IF DriverRaises(sessions[query_editor], stmt) THEN
        /\ sessions' = [sessions EXCEPT ![query_editor] = DriverAfter(@, stmt)]
        /\ Report("Error", "Query Error", 0)
        /\ UNCHANGED <<results_view, viz_data>>
    ELSE IF ReturnsResults(query, stmt.description) THEN
        /\ Report("Rows", "", Len(stmt.rows))
        /\ on_query_executed(stmt.description, stmt.rows)
        /\ UNCHANGED sessions
    ELSE
        /\ Report("Affected", "", stmt.rowcount)
        /\ on_query_executed(<<>>, <<>>)
        /\ UNCHANGED sessions

\* inputs that the handler never reads are fixed, so that one run of the
\* handler is one transition
Read(text, stmt) ==
    IF query_editor = None \/ Strip(text) = <<>> THEN stmt = NoStmt
    ELSE stmt \in Statements

\* MainWindow.execute_query: the Execute actions of the main window
execute_query(text, stmt) ==
    /\ Read(text, stmt)
    /\ IF Strip(text) # <<>> THEN
           /\ config' = add_query_history(config, Strip(text))
           /\ file' = save(config', file, TRUE)
       ELSE UNCHANGED <<config, file>>
    /\ EditorExecute("execute_query", text, stmt)
    /\ right_panel' = 0
    /\ UNCHANGED <<db_connection, query_editor, schema_browser, recent_menu, steps>>

\* QueryEditor.execute_action: the Execute action of the editor's own toolbar
execute_action(text, stmt) ==
    /\ Read(text, stmt)
    /\ EditorExecute("execute_action", text, stmt)
    /\ UNCHANGED <<db_connection, query_editor, schema_browser, right_panel, config, file,
                   recent_menu, steps>>

\* right_panel.setCurrentIndex(index) with MainWindow.on_tab_changed, the
\* slot of currentChanged
on_tab_changed(index) ==
    /\ index # right_panel
    /\ right_panel' = index
    /\ viz_data' = IF index = 1 /\ Len(results_view.rows) > 0
                   THEN set_data(results_view.columns, UserRows(results_view))
                   ELSE viz_data
    /\ Log("on_tab_changed",
           IF index = 1 /\ Len(results_view.rows) > 0
           THEN Inferring(results_view.columns, UserRows(results_view)) ELSE "", "", "")
    /\ UNCHANGED <<db_connection, sessions, query_editor, schema_browser, results_view,
                   config, file, recent_menu, steps>>

(***************************************************************************)
(* Preferences written by the shell                                        *)
(***************************************************************************)
QueryLimits == {DefaultQueryLimit, 500}

\* a Config.set of the shell with its save
Set(op, key, value, written) ==
    /\ config' = config_set(config, key, value)
    /\ file' = save(config', file, written)
    /\ Log(op, IF written THEN "saved" ELSE "save_failed", "", "")
    /\ UNCHANGED <<db_connection, sessions, query_editor, schema_browser, results_view,
                   viz_data, right_panel, steps>>

\* MainWindow.show_preferences_dialog, accepted
show_preferences_dialog(limit, written) ==
    /\ Set("show_preferences_dialog", "query_limit", limit, written)
    /\ UNCHANGED recent_menu

\* MainWindow.clear_recent_connections, confirmed
clear_recent_connections(written) ==
    /\ recent_menu # <<>>
    /\ Set("clear_recent_connections", "recent_connections", <<>>, written)
    /\ recent_menu' = <<>>

\* MainWindow.clear_query_history, confirmed
clear_query_history(written) ==
    /\ config.query_history # <<>>
    /\ Set("clear_query_history", "query_history", <<>>, written)
    /\ UNCHANGED recent_menu

(***************************************************************************)
(* The shell                                                               *)
(***************************************************************************)
Next ==
    \/ \E accepted \in BOOLEAN, details \in ShellProfiles, outcome \in ConnectOutcomes,
          catalog \in CatalogOutcomes :
           open_connection_dialog(accepted, details, outcome, catalog)
    \/ \E i \in 1..Len(recent_menu), ok \in BOOLEAN, password \in Passwords,
          outcome \in ConnectOutcomes, catalog \in CatalogOutcomes :
           connect_to_recent(i, ok, password, outcome, catalog)
    \/ \E closed \in BOOLEAN, released \in BOOLEAN : disconnect_database(closed, released)
    \/ \E text \in Texts, stmt \in Statements \cup {NoStmt} : execute_query(text, stmt)
    \/ \E text \in Texts, stmt \in Statements \cup {NoStmt} : execute_action(text, stmt)
    \/ \E index \in {0, 1} : on_tab_changed(index)
    \/ \E limit \in QueryLimits : show_preferences_dialog(limit, TRUE)
    \/ clear_recent_connections(TRUE)
    \/ clear_query_history(TRUE)

Spec == Init /\ [][Next]_vars

(***************************************************************************)
(* The preference store alone: add_recent_connection and add_query_history *)
(* called directly on a store whose lists are empty or full                *)
(***************************************************************************)
FullRecent == [k \in 1..RecentCap |-> Profile(k, "")]

FullHistory == [n \in 1..HistoryCap |-> QueryText(n)]

InitConfig ==
    /\ Init!1 /\ Init!2 /\ Init!3 /\ Init!4 /\ Init!5 /\ Init!6 /\ Init!7
    /\ \E full \in BOOLEAN :
           config = [recent_connections |-> IF full THEN FullRecent ELSE <<>>,
                     query_history |-> IF full THEN FullHistory ELSE <<>>,
                     query_limit |-> DefaultQueryLimit]
    /\ file = config
    /\ recent_menu = config.recent_connections
    /\ lastOp = NoOp
    /\ prevOp = NoOp
    /\ steps = 0

\* Config.add_recent_connection(connection_details)
AddRecent(details, written) ==
    /\ steps < MaxAdds
    /\ steps' = steps + 1
    /\ config' = add_recent_connection(config, details)
    /\ file' = save(config', file, written)
    /\ lastOp' = Op("add_recent_connection", "", "", 0, "", details, <<>>)
    /\ prevOp' = lastOp
    /\ UNCHANGED shell_vars

\* Config.add_query_history(query)
AddQuery(query, written) ==
    /\ steps < MaxAdds
    /\ steps' = steps + 1
    /\ config' = add_query_history(config, query)
    /\ file' = save(config', file, written)
    /\ lastOp' = Op("add_query_history", "", "", 0, "", NoProfile, query)
    /\ prevOp' = lastOp
    /\ UNCHANGED shell_vars

NextConfig ==
    \/ \E details \in ConfigProfiles, written \in BOOLEAN : AddRecent(details, written)
    \/ \E query \in ConfigQueries, written \in BOOLEAN : AddQuery(query, written)

SpecConfig == InitConfig /\ [][NextConfig]_vars

(***************************************************************************)
(* The results view alone: selecting, copying and exporting a grid         *)
(***************************************************************************)
\* the result sets shown: the column of None and 5, and a grid of 3 x 3 with
\* None, an empty text and the text NULL among its values
Grids ==
    { [columns |-> <<"a">>, rows |-> << <<Null>>, <<IntV(<<"5">>)>> >>],
      [columns |-> <<"a", "b", "c">>,
       rows |-> << <<StrV(Red), Null, IntV(<<"5">>)>>,
                   <<StrV(Blue), IntV(<<"7">>), StrV(NullText)>>,
                   <<Null, StrV(<<>>), IntV(<<"9">>)>> >>] }

Tab == "\t"
Newline == "\n"

\* sep.join(texts)
RECURSIVE Join(_, _)
Join(texts, sep) ==
    IF texts = <<>> THEN <<>>
    ELSE IF Len(texts) = 1 THEN texts[1]
    ELSE texts[1] \o <<sep>> \o Join(Tail(texts), sep)

\* the texts one after the other
RECURSIVE Concat(_)
Concat(texts) == IF texts = <<>> THEN <<>> ELSE Head(texts) \o Concat(Tail(texts))

\* the cells of a grid, as <<row, column>>, both counted from 1
Cells(view) ==
    {<<r, c>> : r \in 1..Len(view.rows), c \in 1..Len(view.columns)}

\* A press on one cell and a release on another in the table view. The view
\* selects by rows (SelectRows, ExtendedSelection): every cell of every row
\* between the two is selected; with Ctrl held, a click toggles its row.
Swept(view, r0, r1, ctrl) ==
    LET rows == {r \in 1..Len(view.rows) : r0 <= r /\ r <= r1}
        whole == {x \in Cells(view) : x[1] \in rows}
    IN  IF ~ctrl THEN whole
        ELSE IF whole \subseteq view.selected THEN view.selected \ whole
        ELSE view.selected \cup whole

\* the field copy_selection writes for a selected cell: self.model.data(index)
\* is the display role
CopyField(item) == item.text

\* the text copy_selection puts on the clipboard
CopyText(view) ==
    LET sel == view.selected
        min_row == Min({x[1] : x \in sel})
        max_row == Max({x[1] : x \in sel})
        min_col == Min({x[2] : x \in sel})
        max_col == Max({x[2] : x \in sel})
        row_text(r) ==
            [k \in 1..(max_col - min_col + 1) |->
                LET c == min_col + k - 1
                IN  IF <<r, c>> \in sel THEN CopyField(view.rows[r][c]) ELSE <<>>]
        lines == [k \in 1..(max_row - min_row + 1) |->
                     Join(row_text(min_row + k - 1), Tab) \o <<Newline>>]
        text == Concat(lines)
    IN  IF text # <<>> /\ text[Len(text)] = Newline
        THEN SubSeq(text, 1, Len(text) - 1)
        ELSE text


\* an export of the display text as it is
C11_ExportDisplay(item) == item.text

\* the field export_to_csv hands to csv.writer for a cell: the display role,
\* with the text NULL replaced by the empty text
ExportField(item) == IF item.text = NullText THEN <<>> ELSE item.text

\* the rows export_to_csv hands to csv.writer: the header, then the cells
CsvRows(view) ==
    <<view.columns>> \o
    [r \in 1..Len(view.rows) |->
        [c \in 1..Len(view.columns) |-> ExportField(view.rows[r][c])]]

\* a handler of the results view: what it produced and the message it showed
Done(op, result, msg, input) ==
    /\ lastOp' = Op(op, result, msg, 0, "", NoProfile, input)
    /\ prevOp' = lastOp
    /\ UNCHANGED <<db_connection, sessions, query_editor, schema_browser, viz_data,
                   right_panel, config, file, recent_menu, steps>>

InitResults ==
    /\ Init!1 /\ Init!2 /\ Init!3 /\ Init!4 /\ Init!6 /\ Init!7
    /\ Init!8 /\ Init!9 /\ Init!10 /\ Init!11 /\ Init!12 /\ Init!13
    /\ \E g \in Grids : results_view = display_results(g.columns, g.rows)

\* ResultsView.display_results(columns, data) with a new result set
show_results(g) ==
    /\ results_view' = display_results(g.columns, g.rows)
    /\ Done("display_results", "", "", <<>>)

\* ResultsView.clear_results
clear_results ==
    /\ results_view' = EmptyResult
    /\ Done("clear_results", "", "", <<>>)

\* the user presses on cell (r0, c0) and releases on cell (r1, c1)
select(r0, c0, r1, c1, ctrl) ==
    /\ <<r0, c0>> \in Cells(results_view) /\ <<r1, c1>> \in Cells(results_view)
    /\ r0 <= r1 /\ c0 <= c1
    /\ ctrl => (r0 = r1 /\ c0 = c1)
    /\ results_view' = [results_view EXCEPT !.selected = Swept(results_view, r0, r1, ctrl)]
    /\ Done("select", "", "", <<r0, c0, r1, c1>>)

\* ResultsView.copy_selection
copy_selection ==
    /\ UNCHANGED results_view
    /\ IF results_view.selected = {}
       THEN Done("copy_selection", <<>>, "", <<>>)
       ELSE Done("copy_selection", CopyText(results_view), "copied", <<>>)

\* ResultsView.export_to_csv: the file dialog gives a path or not, and the
\* writing succeeds or raises
export_to_csv(chosen, written) ==
    /\ UNCHANGED results_view
    /\ IF Len(results_view.rows) = 0 THEN
           /\ chosen /\ written
           /\ Done("export_to_csv", <<>>, "No data to export", <<>>)
       ELSE IF ~chosen THEN
           /\ written
           /\ Done("export_to_csv", <<>>, "", <<>>)
       ELSE IF written THEN Done("export_to_csv", CsvRows(results_view), "exported", <<>>)
       ELSE Done("export_to_csv", <<>>, "Export Error", <<>>)

NextResults ==
    \/ \E g \in Grids : show_results(g)
    \/ clear_results
    \/ \E r0, r1 \in 1..3, c0, c1 \in 1..3, ctrl \in BOOLEAN : select(r0, c0, r1, c1, ctrl)
    \/ copy_selection
    \/ \E chosen \in BOOLEAN, written \in BOOLEAN : export_to_csv(chosen, written)

SpecResults == InitResults /\ [][NextResults]_vars

(***************************************************************************)
(* The visualization view alone: tables arriving, options chosen, charts   *)
(* rendered                                                                *)
(***************************************************************************)
Day(y, m, d) == <<"2", "0", "2", y, "-", "0", m, "-", d[1], d[2]>>

\* The tables given to set_data: a column of dates with a leading None, of
\* ints and of words; two columns of ints; words, a column of None only and
\* texts that start with a day that does not exist; and the empty inputs.
VizTables ==
    { [columns |-> <<"d", "n", "c">>,
       rows |-> << <<Null, IntV(<<"1">>), StrV(Red)>>,
                   <<StrV(Day("4", "1", <<"0", "1">>)), IntV(<<"2">>), StrV(Blue)>>,
                   <<StrV(Day("4", "2", <<"0", "1">>)), IntV(<<"3">>), Null>> >>],
      [columns |-> <<"n", "m">>,
       rows |-> << <<IntV(<<"1">>), IntV(<<"5">>)>>, <<IntV(<<"2">>), Null>> >>],
      [columns |-> <<"c", "e", "s">>,
       rows |-> << <<StrV(Red), Null, StrV(Day("3", "2", <<"2", "9">>))>>,
                   <<StrV(Blue), Null, StrV(Day("4", "2", <<"2", "9">>))>> >>],
      [columns |-> <<"a">>, rows |-> <<>>],
      [columns |-> <<>>, rows |-> <<>>] }

\* three of the items of chart_type_combo
ChartTypes == {"Bar Chart", "Pie Chart", "Heatmap"}

\* two of the items of heatmap_cmap_combo
ColorMaps == {"Viridis", "Blues"}

\* str.lower() of these items
Lower == [c \in ColorMaps |-> IF c = "Viridis" THEN "viridis" ELSE "blues"]

\* the names, among these spellings, under which matplotlib registers a
\* colormap: its lookup is case sensitive
RegisteredColormaps == {"viridis", "Blues"}

\* df.select_dtypes(include=["number"]).shape[1]
NumericColumns(view) ==
    Cardinality({c \in 1..Len(view.columns) : IsNumericDtype(Column(view.rows, c))})

\* VisualizationView.create_heatmap: a notice drawn on the axes when there
\* are fewer than two numeric columns, else seaborn's heatmap of the
\* correlation matrix, which raises on an unknown colormap
create_heatmap(view) ==
    IF NumericColumns(view) < 2 THEN "notice"
    ELSE IF Lower[view.cmap] \in RegisteredColormaps THEN "matrix"
    ELSE "raise"

\* the number of distinct values above which create_bar_chart keeps the most
\* frequent ones, and how many it keeps
BarCategoryLimit == 100

BarTop == 20

\* the number of groups above which create_pie_chart keeps the largest ones
PieTop == 10

\* the index of a column of the held table
ColumnIndex(view, name) == CHOOSE c \in 1..Len(view.columns) : view.columns[c] = name

\* the values of a column that are not None: the groups of groupby, the
\* values nunique and value_counts count
Groups(values) == {values[i] : i \in {j \in 1..Len(values) : values[j] # Null}}

\* a function as a table of its values, each computed once
Table(f) == f @@ <<>>

\* the n members of a set of groups with the largest weight, the earlier
\* row first among equal weights (nlargest with keep='first')
Largest(groups, weight, first, n) ==
    LET w == Table(weight)
        f == Table(first)
    IN  {g \in groups :
            Cardinality({h \in groups : \/ w[h] > w[g]
                                        \/ w[h] = w[g] /\ f[h] < f[g]}) < n}

FirstRow(values) ==
    [g \in Groups(values) |-> Min({i \in 1..Len(values) : values[i] = g})]

\* create_bar_chart: the values of the X column the bars are drawn for
BarCategories(view) ==
    LET xs == Column(view.rows, ColumnIndex(view, view.x))
        value_counts == [g \in Groups(xs) |->
                            Cardinality({i \in 1..Len(xs) : xs[i] = g})]
    IN  IF Cardinality(Groups(xs)) > BarCategoryLimit
        THEN Largest(Groups(xs), value_counts, FirstRow(xs), BarTop)
        ELSE Groups(xs)

\* the sum of the ints among the values
RECURSIVE SumOf(_)
SumOf(values) ==
    IF values = <<>> THEN 0
    ELSE (IF Head(values).t = "int" THEN Num(Head(values).v) ELSE 0) + SumOf(Tail(values))

\* create_pie_chart: the values of the X column the wedges are drawn for
PieCategories(view) ==
    LET xs == Column(view.rows, ColumnIndex(view, view.x))
        ys == Column(view.rows, ColumnIndex(view, view.y))
        grouped == [g \in Groups(xs) |->
                       SumOf(SelectSeq([i \in 1..Len(xs) |->
                                           IF xs[i] = g THEN ys[i] ELSE Null],
                                       LAMBDA v : v # Null))]
    IN  IF Cardinality(Groups(xs)) > PieTop
        THEN Largest(Groups(xs), grouped, FirstRow(xs), PieTop)
        ELSE Groups(xs)

\* the number of categories of the chart a builder has drawn
Drawn(view) ==
    IF view.chart_type = "Bar Chart" THEN Cardinality(BarCategories(view))
    ELSE IF view.chart_type = "Pie Chart" THEN Cardinality(PieCategories(view))
    ELSE 0

\* the builder of the chosen chart type; what pandas, seaborn and matplotlib
\* do with the table for the other types is left open: they plot or raise
BuildChart(view, plots) ==
    IF view.chart_type = "Heatmap" THEN create_heatmap(view)
    ELSE IF plots THEN "plot" ELSE "raise"

\* a handler that lets the error of the builder leave update_chart
C18_Reraise(built) == "propagated"

\* the except branch of update_chart: the message is shown in the status bar
\* and in a label in the chart area
OnFailure(built) == "error_label"

\* VisualizationView.update_chart: what the chart area shows afterwards, the
\* status line, what the builder did and the number of categories it drew
update_chart(view, plots) ==
    IF ~view.held
    THEN [result |-> "unchanged", message |-> "No data available", driver |-> "", n |-> 0]
    ELSE LET built == BuildChart(view, plots) IN
         IF built = "raise"
         THEN [result |-> OnFailure(built), message |-> "Error creating chart",
               driver |-> "raised", n |-> 0]
         ELSE [result |-> built, message |-> "Chart updated successfully",
               driver |-> "built", n |-> IF built = "plot" THEN Drawn(view) ELSE 0]

\* a handler of the visualization view
Shown(op, outcome) ==
    /\ lastOp' = Op(op, outcome.result, outcome.message, outcome.n, outcome.driver,
                    NoProfile, <<>>)
    /\ UNCHANGED <<db_connection, sessions, query_editor, schema_browser, results_view,
                   right_panel, config, file, recent_menu, prevOp, steps>>

\* VisualizationView.set_data(columns, data)
viz_set_data(t, plots) ==
    /\ viz_data' = set_data(t.columns, t.rows)
    /\ IF viz_data'.held THEN Shown("set_data", update_chart(viz_data', plots))
       ELSE /\ plots
            /\ Shown("set_data", [result |-> "cleared", message |-> "", driver |-> "", n |-> 0])

\* a change of an option, and the update_chart its signal is connected to
Choose(op, view, plots) ==
    /\ view # viz_data
    /\ viz_data' = view
    /\ Shown(op, update_chart(view, plots))

\* chart_type_combo.currentIndexChanged: on_chart_type_changed
on_chart_type_changed(kind, plots) ==
    Choose("on_chart_type_changed", [viz_data EXCEPT !.chart_type = kind], plots)

\* x_axis_combo, y_axis_combo, group_by_combo: currentIndexChanged
choose_columns(x, y, group, plots) ==
    /\ HasItem(viz_data.items, x) /\ HasItem(viz_data.items, y)
    /\ HasItem(<<"None">> \o viz_data.items, group)
    /\ Cardinality({k \in {1, 2, 3} : <<x, y, group>>[k] #
                                      <<viz_data.x, viz_data.y, viz_data.group>>[k]}) = 1
    /\ Choose("choose_columns", [viz_data EXCEPT !.x = x, !.y = y, !.group = group], plots)

\* heatmap_cmap_combo.currentIndexChanged
choose_cmap(cmap, plots) ==
    Choose("choose_cmap", [viz_data EXCEPT !.cmap = cmap], plots)

ColumnNames == {"d", "n", "c", "m", "e", "s", "a"}

NextViz ==
    \/ \E t \in VizTables, plots \in BOOLEAN : viz_set_data(t, plots)
    \/ \E kind \in ChartTypes, plots \in BOOLEAN : on_chart_type_changed(kind, plots)
    \/ \E x, y \in ColumnNames, group \in ColumnNames \cup {"None"}, plots \in BOOLEAN :
           choose_columns(x, y, group, plots)
    \/ \E cmap \in ColorMaps, plots \in BOOLEAN : choose_cmap(cmap, plots)

SpecViz == Init /\ [][NextViz]_vars

(***************************************************************************)
(* The selectors and the texts of the visualization view: tables arriving, *)
(* columns chosen, title and labels typed                                  *)
(***************************************************************************)
\* a title and a label typed by the user
TypedTitle == <<"T">>

TypedLabel == "L"

\* chart_title_input, x_label_input, y_label_input: textChanged
edit_text(field, plots) ==
    Choose("edit_text",
           CASE field = "title" -> [viz_data EXCEPT !.title = TypedTitle]
             [] field = "x_label" -> [viz_data EXCEPT !.x_label = TypedLabel]
             [] field = "y_label" -> [viz_data EXCEPT !.y_label = TypedLabel],
           plots)

NextTexts ==
    \/ \E t \in VizTables, plots \in BOOLEAN : viz_set_data(t, plots)
    \/ \E x, y \in ColumnNames, group \in ColumnNames \cup {"None"}, plots \in BOOLEAN :
           choose_columns(x, y, group, plots)
    \/ \E field \in {"title", "x_label", "y_label"}, plots \in BOOLEAN :
           edit_text(field, plots)

SpecTexts == Init /\ [][NextTexts]_vars

(***************************************************************************)
(* Charts of tables with many categories                                   *)
(***************************************************************************)
DigitChars == <<"0", "1", "2", "3", "4", "5", "6", "7", "8", "9">>

\* str(n)
RECURSIVE Numeral(_)
Numeral(n) ==
    IF n < 10 THEN <<DigitChars[n + 1]>>
    ELSE Numeral(n \div 10) \o <<DigitChars[(n % 10) + 1]>>

\* the numbers of distinct values of the X column that are tried: up to,
\* at and above the limits
CategoryCounts == {10, 11, 20, 21, 100, 101}

\* a table of the columns k and v with n categories c1 .. cn in k, the last
\* three of them in a second row, and their numbers in v
CategoryTable(n) ==
    [columns |-> <<"k", "v">>,
     rows |-> [r \in 1..(n + 3) |->
                  LET k == IF r <= n THEN r ELSE r - 3
                  IN  <<StrV(<<"c">> \o Numeral(k)), IntV(Numeral(k))>>]]

\* the view after set_data of such a table
InitCharts ==
    /\ Init!1 /\ Init!2 /\ Init!3 /\ Init!4 /\ Init!5 /\ Init!7 /\ Init!8 /\ Init!9
    /\ Init!10 /\ Init!12 /\ Init!13
    /\ \E n \in CategoryCounts, plots \in BOOLEAN :
           LET t == CategoryTable(n)
               view == update_column_selectors(
                           [NoTable EXCEPT !.held = TRUE, !.columns = t.columns,
                                           !.rows = t.rows,
                                           !.types = infer_column_types(t.columns, t.rows),
                                           !.placeholder = FALSE])
               outcome == update_chart(view, plots)
           IN  /\ viz_data = view
               /\ lastOp = Op("set_data", outcome.result, outcome.message, outcome.n,
                              outcome.driver, NoProfile, <<>>)

NextCharts ==
    \/ \E kind \in ChartTypes, plots \in BOOLEAN : on_chart_type_changed(kind, plots)
    \/ \E x, y \in {"k", "v"}, group \in {"k", "v", "None"}, plots \in BOOLEAN :
           choose_columns(x, y, group, plots)

SpecCharts == InitCharts /\ [][NextCharts]_vars

(***************************************************************************)
(* The preference file: Config.__init__ with its load, then set and get.   *)
(* Here file is what the disk holds: whether the directory exists, whether *)
(* config.json exists and parses, and the dictionary it parses to.         *)
(***************************************************************************)
\* the keys of self.defaults
RecognizedKeys == DOMAIN DefaultConfig

\* a key the application does not know
UnknownKey == "theme"

\* values other than the defaults, as json.load returns them
StoredValue(key) ==
    CASE key = "recent_connections" -> <<Profile(1, "")>>
      [] key = "query_history" -> <<QueryText(1)>>
      [] key = "query_limit" -> 500
      [] OTHER -> <<"d", "a", "r", "k">>

\* the dictionaries a config.json can hold: any recognized keys, with or
\* without an unknown one
Contents ==
    {[k \in keys |-> StoredValue(k)] : keys \in SUBSET (RecognizedKeys \cup {UnknownKey})}

Disk(dir, kind, content) == [dir |-> dir, kind |-> kind, content |-> content]

\* a config.json that json.load accepts and that holds the dictionary
Object(content) == Disk(TRUE, "object", content)

Disks ==
    {Disk(FALSE, "missing", <<>>), Disk(TRUE, "missing", <<>>),
     Disk(TRUE, "unparsable", <<>>)}
        \cup {Object(content) : content \in Contents}

\* no Config object: its __init__ raised
NoConfig == [k \in {} |-> None]

\* for key, value in self.defaults.items(): if key not in config: config[key] = value
FillDefaults(content) ==
    [k \in DOMAIN content \cup RecognizedKeys |->
        IF k \in DOMAIN content THEN content[k] ELSE DefaultConfig[k]]

\* Config.load: the mkdir of a missing directory stands before the try and
\* its error leaves load; without a file the defaults; json.load and the
\* filling inside the try, whose handler returns the defaults
load(disk, mkdir_ok) ==
    IF ~disk.dir /\ ~mkdir_ok THEN [raised |-> TRUE, config |-> NoConfig]
    ELSE IF disk.kind = "missing" THEN [raised |-> FALSE, config |-> DefaultConfig]
    ELSE IF disk.kind = "unparsable" THEN [raised |-> FALSE, config |-> DefaultConfig]
    ELSE [raised |-> FALSE, config |-> FillDefaults(disk.content)]

\* the file after Config.save: open(..., 'w') fails and leaves it alone, or
\* json.dump writes all of it, or stops and leaves a part of the text
SaveOutcomes == {"written", "open_failed", "cut_short"}

Written(cfg, disk, outcome) ==
    IF outcome = "cut_short" THEN Disk(TRUE, "unparsable", <<>>)
    ELSE save(Object(cfg), disk, outcome = "written")

Keyed(key, value) == [key |-> key, value |-> value]

InitLoad ==
    /\ Init!1 /\ Init!2 /\ Init!3 /\ Init!4 /\ Init!5 /\ Init!6 /\ Init!7
    /\ config = NoConfig
    /\ file \in Disks
    /\ recent_menu = <<>>
    /\ lastOp = NoOp
    /\ prevOp = NoOp
    /\ steps = 0

\* Config.__init__ of a new process: self.config = self.load()
Start(mkdir_ok) ==
    LET loaded == load(file, mkdir_ok)
    IN  /\ config' = loaded.config
        /\ file' = IF ~file.dir /\ mkdir_ok THEN [file EXCEPT !.dir = TRUE] ELSE file
        /\ lastOp' = Op("load", IF loaded.raised THEN "raised" ELSE "returned", "", 0,
                        "", NoProfile, <<>>)
        /\ prevOp' = lastOp
        /\ UNCHANGED <<shell_vars, steps>>

\* Config.set(key, value)
ConfigSet(key, value, outcome) ==
    /\ config # NoConfig
    /\ config' = config_set(config, key, value)
    /\ file' = Written(config', file, outcome)
    /\ lastOp' = Op("set", "returned",
                    IF outcome = "written" THEN "" ELSE "Error saving config", 0,
                    outcome, Keyed(key, value), <<>>)
    /\ prevOp' = lastOp
    /\ UNCHANGED <<shell_vars, steps>>

\* Config.get(key)
ConfigGet(key) ==
    /\ config # NoConfig
    /\ lastOp' = Op("get", "returned", "", 0, "", Keyed(key, config_get(config, key)),
                    <<>>)
    /\ prevOp' = lastOp
    /\ UNCHANGED <<shell_vars, config, file, steps>>

\* the values handed to set: the default of the key or the stored one
SetValues(key) ==
    {StoredValue(key)} \cup (IF key \in RecognizedKeys THEN {DefaultConfig[key]} ELSE {})

NextLoad ==
    \/ \E mkdir_ok \in BOOLEAN : Start(mkdir_ok)
    \/ \E key \in RecognizedKeys \cup {UnknownKey}, outcome \in SaveOutcomes :
           \E value \in SetValues(key) : ConfigSet(key, value, outcome)
    \/ \E key \in RecognizedKeys \cup {UnknownKey} : ConfigGet(key)

SpecLoad == InitLoad /\ [][NextLoad]_vars

(***************************************************************************)
(* The schema browser alone: the tree filled by populate_schema, its nodes *)
(* expanded and refreshed.  Here schema_browser.tree is the list of the    *)
(* top-level items.                                                        *)
(***************************************************************************)
\* the characters of the schema names, in the order of the "C" collation
Alphabet == <<"_", "a", "b", "c", "f", "g", "h", "i", "l", "m", "n", "o", "p", "r", "s",
              "t", "u">>

Rank(ch) == CHOOSE i \in 1..Len(Alphabet) : Alphabet[i] = ch

\* a < b for two names
RECURSIVE Before(_, _)
Before(a, b) ==
    IF b = <<>> THEN FALSE
    ELSE IF a = <<>> THEN TRUE
    ELSE IF Head(a) = Head(b) THEN Before(Tail(a), Tail(b))
    ELSE Rank(Head(a)) < Rank(Head(b))

\* ORDER BY schema_name
Sorted(names) ==
    CHOOSE seq \in [1..Cardinality(names) -> names] :
        \A i, j \in 1..Cardinality(names) : i < j => Before(seq[i], seq[j])

\* name LIKE pattern of SQL: % stands for any text and _ for any one
\* character
RECURSIVE Like(_, _)
Like(name, pattern) ==
    IF pattern = <<>> THEN name = <<>>
    ELSE IF Head(pattern) = "%"
    THEN \E k \in 0..Len(name) : Like(SubSeq(name, k + 1, Len(name)), Tail(pattern))
    ELSE /\ name # <<>>
         /\ Head(pattern) = "_" \/ Head(name) = Head(pattern)
         /\ Like(Tail(name), Tail(pattern))

information_schema ==
    <<"i", "n", "f", "o", "r", "m", "a", "t", "i", "o", "n", "_", "s", "c", "h", "e", "m", "a">>

pg_catalog == <<"p", "g", "_", "c", "a", "t", "a", "l", "o", "g">>

public == <<"p", "u", "b", "l", "i", "c">>

pgboss == <<"p", "g", "b", "o", "s", "s">>

app == <<"a", "p", "p">>

\* the schemas a database holds
Databases ==
    { {pg_catalog, information_schema},
      {pg_catalog, information_schema, public},
      {pg_catalog, information_schema, public, app},
      {pg_catalog, information_schema, public, pgboss} }

\* the rows of the query of populate_schema
ListSchemas(db) ==
    Sorted({name \in db : ~Like(name, <<"p", "g", "_", "%">>) /\ name # information_schema})

\* a QTreeWidgetItem: its text, the type in its UserRole data ("" without
\* data) and its children; load is history: how the last load of its
\* children ended ("fresh": none yet)
TreeItem(text, kind, children, how) ==
    [text |-> text, kind |-> kind, children |-> children, load |-> how]

Leaf(text) == TreeItem(text, "", <<>>, "")

LoadingTables == "Loading tables..."

LoadingColumns == "Loading columns..."

\* the rows information_schema.tables and information_schema.columns give
TableRows == {<<>>, <<"t">>, <<"u">>}

ColumnRows == {<<>>, <<"c">>}

\* what a catalog query does on the browser's session: on a session that is
\* aborted or closed it can only raise
QueryOutcomes(s) == IF sessions[s] = "ready" THEN {"ok", "inerror", "closed"} ELSE {"raises"}

AfterQuery(s, outcome) ==
    IF outcome \in {"inerror", "closed"} THEN [sessions EXCEPT ![s] = outcome] ELSE sessions

\* an expansion that loads whenever the item has data
C23_AlwaysLoad(item, placeholder) == TRUE

\* item.childCount() == 1 and item.child(0).text(0) == placeholder
NeedsLoad(item, placeholder) ==
    Len(item.children) = 1 /\ item.children[1].text = placeholder

\* item.removeChild(item.child(0)): nothing is removed from an item without
\* children
Rest(children) == IF children = <<>> THEN <<>> ELSE Tail(children)

\* SchemaBrowser.load_tables: the first child is removed, then the query;
\* its error leaves the item with the children that are left
load_tables(item, rows, outcome) ==
    LET rest == Rest(item.children) IN
    IF outcome # "ok" THEN [item EXCEPT !.children = rest, !.load = "failed"]
    ELSE IF rows = <<>>
    THEN [item EXCEPT !.children = rest \o <<Leaf("No tables")>>, !.load = "loaded"]
    ELSE [item EXCEPT
             !.children = rest \o [k \in 1..Len(rows) |->
                                      TreeItem(rows[k], "table", <<Leaf(LoadingColumns)>>,
                                               "fresh")],
             !.load = "loaded"]

\* SchemaBrowser.load_columns; of the display text of a column only the
\* name is kept
load_columns(item, rows, outcome) ==
    LET rest == Rest(item.children) IN
    IF outcome # "ok" THEN [item EXCEPT !.children = rest, !.load = "failed"]
    ELSE IF rows = <<>>
    THEN [item EXCEPT !.children = rest \o <<Leaf("No columns")>>, !.load = "loaded"]
    ELSE [item EXCEPT
             !.children = rest \o [k \in 1..Len(rows) |->
                                      TreeItem(rows[k], "column", <<>>, "")],
             !.load = "loaded"]

\* the item at a path of the tree
ItemAt(path) ==
    IF Len(path) = 1 THEN schema_browser.tree[path[1]]
    ELSE schema_browser.tree[path[1]].children[path[2]]

Paths ==
    {<<i>> : i \in 1..Len(schema_browser.tree)}
        \cup {<<i, j>> : i \in 1..Len(schema_browser.tree), j \in 1..2}

IsPath(path) ==
    /\ path[1] \in 1..Len(schema_browser.tree)
    /\ Len(path) = 2 => path[2] \in 1..Len(schema_browser.tree[path[1]].children)

\* the tree with the item at the path replaced
Put(path, item) ==
    IF Len(path) = 1 THEN [schema_browser EXCEPT !.tree[path[1]] = item]
    ELSE [schema_browser EXCEPT !.tree[path[1]].children[path[2]] = item]

\* a handler of the browser: n is the number of catalog queries it issued
Browsed(op, result, msg, n, outcome, path) ==
    /\ lastOp' = Op(op, result, msg, n, outcome, NoProfile, path)
    /\ UNCHANGED <<results_view, viz_data, right_panel, config, file, recent_menu,
                   prevOp, steps>>

\* a load of the children of the item at the path
Load(op, path, item, rows, outcome) ==
    /\ outcome \in QueryOutcomes(schema_browser.connection)
    /\ outcome = "ok" \/ rows = <<>>
    /\ sessions' = AfterQuery(schema_browser.connection, outcome)
    /\ schema_browser' =
           Put(path, IF item.kind = "schema" THEN load_tables(item, rows, outcome)
                     ELSE load_columns(item, rows, outcome))
    /\ Browsed(op, IF outcome = "ok" THEN "loaded" ELSE "failed",
               IF outcome = "ok" THEN ""
               ELSE IF item.kind = "schema" THEN "Error Loading Tables"
               ELSE "Error Loading Columns",
               1, outcome, path)
    /\ UNCHANGED <<db_connection, query_editor>>

\* SchemaBrowser.populate_schema(connection), called by
\* setup_connected_state with a new session
populate_schema(db, outcome) ==
    /\ \E s \in SessionIds : sessions[s] = "unborn"
    /\ outcome \in {"ok", "inerror", "closed"}
    /\ db_connection' = Fresh
    /\ query_editor' = set_connection(Fresh)
    /\ sessions' = [sessions EXCEPT ![Fresh] = IF outcome = "ok" THEN "ready" ELSE outcome]
    /\ schema_browser' =
           [connection |-> Fresh,
            tree |-> IF outcome # "ok" THEN <<>>
                     ELSE LET schemas == ListSchemas(db) IN
                          [k \in 1..Len(schemas) |->
                              TreeItem(schemas[k], "schema", <<Leaf(LoadingTables)>>,
                                       "fresh")]]
    /\ lastOp' = Op("populate_schema", IF outcome = "ok" THEN "loaded" ELSE "failed",
                    IF outcome = "ok" THEN "" ELSE "Error Loading Schema", 1, outcome,
                    NoProfile, Sorted(db))
    /\ UNCHANGED <<results_view, viz_data, right_panel, config, file, recent_menu,
                   prevOp, steps>>

\* SchemaBrowser.on_item_expanded(item)
on_item_expanded(path, rows, outcome) ==
    /\ IsPath(path)
    /\ LET item == ItemAt(path) IN
       IF item.kind = "schema" /\ NeedsLoad(item, LoadingTables)
       THEN rows \in TableRows /\ Load("on_item_expanded", path, item, rows, outcome)
       ELSE IF item.kind = "table" /\ NeedsLoad(item, LoadingColumns)
       THEN rows \in ColumnRows /\ Load("on_item_expanded", path, item, rows, outcome)
       ELSE /\ item.kind # ""
            /\ rows = <<>> /\ outcome = "ok"
            /\ Browsed("on_item_expanded", "skipped", "", 0, "", path)
            /\ UNCHANGED <<db_connection, sessions, query_editor, schema_browser>>

\* SchemaBrowser.refresh_schema_item(item, schema_name)
refresh_schema_item(i, rows, outcome) ==
    /\ i \in 1..Len(schema_browser.tree)
    /\ Load("refresh_schema_item", <<i>>,
            [schema_browser.tree[i] EXCEPT !.children = <<Leaf(LoadingTables)>>],
            rows, outcome)

\* SchemaBrowser.refresh_table_item(item, schema_name, table_name)
refresh_table_item(path, rows, outcome) ==
    /\ Len(path) = 2 /\ IsPath(path)
    /\ ItemAt(path).kind = "table"
    /\ Load("refresh_table_item", path,
            [ItemAt(path) EXCEPT !.children = <<Leaf(LoadingColumns)>>], rows, outcome)

AllOutcomes == {"ok", "inerror", "closed", "raises"}

NextTree ==
    \/ \E db \in Databases, outcome \in AllOutcomes : populate_schema(db, outcome)
    \/ \E path \in Paths, rows \in TableRows \cup ColumnRows, outcome \in AllOutcomes :
           on_item_expanded(path, rows, outcome)
    \/ \E i \in {1, 2}, rows \in TableRows, outcome \in AllOutcomes :
           refresh_schema_item(i, rows, outcome)
    \/ \E path \in Paths, rows \in ColumnRows, outcome \in AllOutcomes :
           refresh_table_item(path, rows, outcome)

\* before a connection: an empty tree
InitTree ==
    /\ Init!1 /\ Init!2 /\ Init!3 /\ Init!5 /\ Init!6 /\ Init!7 /\ Init!8 /\ Init!9
    /\ Init!10 /\ Init!11 /\ Init!12 /\ Init!13
    /\ schema_browser = [connection |-> None, tree |-> <<>>]

SpecTree == InitTree /\ [][NextTree]_vars

(***************************************************************************)
(* Properties                                                              *)
(***************************************************************************)
ConnectOps == {"open_connection_dialog", "connect_to_recent"}

ExecOps == {"execute_query", "execute_action"}

PasswordsEmpty(recent) == \A i \in 1..Len(recent) : recent[i].password = ""

\* C1: while the shell stores a session, every attempt to open a new one,
\* from the connection dialog or from the recent-connections menu, is
\* rejected and leaves the stored session unchanged.
C1_OneSessionAtATime ==
    [][(db_connection # None /\ lastOp'.op \in ConnectOps /\ lastOp'.result # "cancelled")
         => (lastOp'.result = "rejected" /\ db_connection' = db_connection)]_vars

\* C2: after disconnect_database no session is stored, also when close()
\* raised, and an error of close() is reported to the user.
C2_DisconnectClears ==
    lastOp.op = "disconnect_database" =>
        /\ db_connection = None
        /\ lastOp.result = "close_raised" => lastOp.message = "Disconnection Error"

\* C3: no entry of the recent-connections list, in memory or in the file,
\* ever holds a password, whatever connects and preference saves happened.
C3_NoStoredPassword ==
    /\ PasswordsEmpty(config.recent_connections)
    /\ PasswordsEmpty(file.recent_connections)

\* C3 witness: a preference save after a connect put an entry in the list
C3_Witness ==
    /\ lastOp.op = "show_preferences_dialog"
    /\ lastOp.result = "saved"
    /\ file.recent_connections # <<>>

\* C4: a connect attempt on which the driver fails ends as ConnectionError,
\* stores no new session and leaves the recent-connections list as it was.
C4_FailedConnect ==
    [][(lastOp'.op \in ConnectOps /\ lastOp'.driver \in {"OperationalError", "Exception"})
         => /\ lastOp'.result = "ConnectionError"
            /\ lastOp'.message = "Connection Error"
            /\ db_connection' = db_connection
            /\ config'.recent_connections = config.recent_connections
            /\ file'.recent_connections = file.recent_connections]_vars

\* C4 witness: a connect from the recent-connections menu that the driver refused
C4_Witness ==
    /\ lastOp.op = "connect_to_recent"
    /\ lastOp.driver = "OperationalError"
    /\ lastOp.result = "ConnectionError"
    /\ config.recent_connections # <<>>

\* the entries of the list stored under the key of profile p
EntriesOf(p) ==
    {i \in 1..Len(config.recent_connections) : SameKey(config.recent_connections[i], p)}

\* two calls of add_recent_connection in a row, with profiles that differ
\* in the password only
TwoPasswords ==
    /\ lastOp.op = "add_recent_connection"
    /\ prevOp.op = "add_recent_connection"
    /\ SameKey(lastOp.profile, prevOp.profile)
    /\ lastOp.profile.password # prevOp.profile.password

\* C5: after add_recent_connection with two profiles that differ only in
\* the password, one entry is stored for their key, with an empty password.
C5_OneEntryPerKey ==
    TwoPasswords =>
        /\ Cardinality(EntriesOf(lastOp.profile)) = 1
        /\ \A i \in EntriesOf(lastOp.profile) :
               config.recent_connections[i].password = ""

\* C5 witness: both profiles were added to a list that holds other entries
C5_Witness == TwoPasswords /\ Len(config.recent_connections) > 1

\* C6: the recent-connections list never has more than 10 entries, and the
\* profile added last is its first entry.
C6_CappedNewestFirst ==
    /\ Len(config.recent_connections) <= RecentCap
    /\ lastOp.op = "add_recent_connection" =>
           /\ config.recent_connections # <<>>
           /\ SameKey(config.recent_connections[1], lastOp.profile)

\* C6 witness: a profile that was not in the full list was added
C6_Witness ==
    /\ lastOp.op = "add_recent_connection"
    /\ lastOp.profile.port = Profile(RecentCap + 1, "").port
    /\ Len(config.recent_connections) = RecentCap

NoDuplicates(seq) == \A i, j \in 1..Len(seq) : seq[i] = seq[j] => i = j

\* C7: the query history never has more than 50 entries nor the same string
\* twice; adding a string that is in it moves the string to the front and
\* keeps the length.
C7_HistoryCappedUnique ==
    /\ [](Len(config.query_history) <= HistoryCap /\ NoDuplicates(config.query_history))
    /\ [][(lastOp'.op = "add_query_history" /\ Contains(config.query_history, lastOp'.query))
            => /\ config'.query_history[1] = lastOp'.query
               /\ Len(config'.query_history) = Len(config.query_history)]_vars

\* C7 witness: the last string of a full history was added again
C7_Witness ==
    /\ lastOp.op = "add_query_history"
    /\ lastOp.query = QueryText(HistoryCap)
    /\ Len(config.query_history) = HistoryCap
    /\ config.query_history[1] = QueryText(HistoryCap)
    /\ config.query_history[2] = QueryText(1)

\* C8: every execution of a non-empty query against the session, from the
\* main window's Execute actions or from the editor's own, puts the query
\* text in the persisted query history.
C8_ExecutionRecorded ==
    (lastOp.op \in ExecOps /\ lastOp.result \in {"Rows", "Affected", "Error"}) =>
        /\ Contains(config.query_history, lastOp.query)
        /\ Contains(file.query_history, lastOp.query)

\* C9: a failed execution leaves the stored session unchanged, and the next
\* execution of a valid statement on that session, still open, succeeds.
C9_ErrorScoped ==
    [][/\ (lastOp'.op \in ExecOps /\ lastOp'.result = "Error")
            => (db_connection' = db_connection /\ query_editor' = query_editor)
       /\ (/\ lastOp.op \in ExecOps /\ lastOp.result = "Error"
           /\ query_editor # None /\ sessions[query_editor] # "closed"
           /\ lastOp'.op \in ExecOps /\ lastOp'.query # <<>> /\ lastOp'.driver = "ok")
            => lastOp'.result \in {"Rows", "Affected"}]_vars

\* C10: a statement that exposes column metadata ends as Rows, with the
\* column names and all rows in the results view; one that exposes none ends
\* as Affected with the row count and an empty results view; the text of the
\* query has no part in the choice.
C10_OutcomeByMetadata ==
    [][(lastOp'.op \in ExecOps /\ lastOp'.result \in {"Rows", "Affected"}) =>
           \A text \in Texts, stmt \in Statements :
               (execute_query(text, stmt) \/ execute_action(text, stmt))
               => IF stmt.description # <<>>
                  THEN /\ lastOp'.result = "Rows"
                       /\ lastOp'.n = Len(stmt.rows)
                       /\ results_view'.columns = stmt.description
                       /\ UserRows(results_view') = stmt.rows
                  ELSE /\ lastOp'.result = "Affected"
                       /\ lastOp'.n = stmt.rowcount
                       /\ results_view' = EmptyResult]_vars

\* C10 witness: a statement with two columns and two rows was executed
C10_Witness ==
    /\ lastOp.op \in ExecOps
    /\ lastOp.result = "Rows"
    /\ lastOp.n = 2
    /\ results_view.columns = <<"a", "b">>
    /\ Len(results_view.rows) = 2

\* the fields of the copied text, line by line
CopiedFields == LET lines == Split(lastOp.result, Newline)
                IN  [k \in 1..Len(lines) |-> Split(lines[k], Tab)]

Copied == lastOp.op = "copy_selection" /\ results_view.selected # {}

SelRows == {x[1] : x \in results_view.selected}
SelCols == {x[2] : x \in results_view.selected}

\* C11: a cell whose value is null is displayed as NULL and exported as an
\* empty field; the value 5 is exported as the text 5.
C11_NullDisplayedAndExported ==
    /\ \A x \in Cells(results_view) :
           results_view.rows[x[1]][x[2]].user = Null
               => results_view.rows[x[1]][x[2]].text = <<"N", "U", "L", "L">>
    /\ (lastOp.op = "export_to_csv" /\ lastOp.message = "exported") =>
           \A x \in Cells(results_view) :
               LET value == results_view.rows[x[1]][x[2]].user
                   field == lastOp.result[x[1] + 1][x[2]]
               IN  /\ value = Null => field = <<>>
                   /\ value = IntV(<<"5">>) => field = <<"5">>

\* C11 witness: the column of None and 5 was exported
C11_Witness ==
    /\ lastOp.op = "export_to_csv"
    /\ lastOp.message = "exported"
    /\ results_view.columns = <<"a">>
    /\ UserRows(results_view) = << <<Null>>, <<IntV(<<"5">>)>> >>

\* C12: in the text copy_selection produces, the field of every selected
\* cell whose value is null is empty.
C12_CopyNullEmpty ==
    Copied =>
        \A x \in results_view.selected :
            results_view.rows[x[1]][x[2]].user = Null
                => CopiedFields[x[1] - Min(SelRows) + 1][x[2] - Min(SelCols) + 1] = <<>>

VizOps == {"set_data", "on_chart_type_changed", "choose_columns", "choose_cmap"}

\* the tags the view holds, in column order
Tags == [i \in 1..Len(viz_data.types) |-> viz_data.types[i].tag]

\* C14: after set_data the view holds the new table and the types inferred
\* from it; after set_data without columns or rows it holds no table and no
\* types, the chart area is cleared and the placeholder is shown.
C14_SetDataReplacesOrClears ==
    lastOp.op = "set_data" =>
        IF viz_data.held
        THEN /\ viz_data.rows # <<>>
             /\ [i \in 1..Len(viz_data.types) |-> viz_data.types[i].name] = viz_data.columns
             /\ ~viz_data.placeholder
        ELSE /\ viz_data.columns = <<>> /\ viz_data.rows = <<>>
             /\ viz_data.types = <<>>
             /\ viz_data.placeholder
             /\ lastOp.result = "cleared"

\* C15: when a table arrives in a view whose selectors are empty, X is the
\* first column tagged categorical or date, Y the first column tagged
\* numeric, each the first column if there is none, and the title is
\* "{y} by {x}".
C15_DefaultAxes ==
    [][(viz_data.items = <<>> /\ lastOp'.op = "set_data" /\ viz_data'.held) =>
           LET tags == [i \in 1..Len(viz_data'.types) |-> viz_data'.types[i].tag]
               xs == {i \in 1..Len(tags) : tags[i] \in {"categorical", "date"}}
               ys == {i \in 1..Len(tags) : tags[i] = "numeric"}
               x == viz_data'.columns[IF xs = {} THEN 1 ELSE Min(xs)]
               y == viz_data'.columns[IF ys = {} THEN 1 ELSE Min(ys)]
           IN  /\ viz_data'.x = x
               /\ viz_data'.y = y
               /\ viz_data'.title = <<y, " by ", x>>]_vars

\* C15 witness: a first table with a date, a numeric and a categorical column
C15_Witness ==
    /\ lastOp.op = "set_data"
    /\ viz_data.held
    /\ Tags = <<"date", "numeric", "categorical">>
    /\ viz_data.x = "d" /\ viz_data.y = "n"
    /\ viz_data.title = <<"n", " by ", "d">>

C17_Heatmap ==
    (lastOp.op \in VizOps /\ viz_data.held /\ viz_data.chart_type = "Heatmap") =>
        IF NumericColumns(viz_data) < 2
        THEN lastOp.result = "notice" /\ lastOp.driver = "built"
        ELSE lastOp.result = "matrix"

\* C18: no run of update_chart lets an exception through, and whenever a
\* builder raised, the chart area shows the error label and the status line
\* the error.
C18_RenderFailureCaught ==
    lastOp.op \in VizOps =>
        /\ lastOp.result # "propagated"
        /\ lastOp.driver = "raised" =>
               /\ lastOp.result = "error_label"
               /\ lastOp.message = "Error creating chart"

\* C18 witness: the builder of a pie chart raised
C18_Witness ==
    /\ lastOp.op \in VizOps
    /\ lastOp.driver = "raised"
    /\ viz_data.chart_type = "Pie Chart"

\* C19: after a load, when the file was missing or did not parse the
\* configuration equals the defaults; otherwise every recognized key the file
\* lacks holds its default and every key of the file holds the file's value
C19_LoadFillsDefaults ==
    lastOp.op = "load" =>
        /\ lastOp.result = "returned"
        /\ file.kind \in {"missing", "unparsable"} => config = DefaultConfig
        /\ file.kind = "object" =>
               /\ \A k \in RecognizedKeys \ DOMAIN file.content :
                      k \in DOMAIN config /\ config[k] = DefaultConfig[k]
               /\ \A k \in DOMAIN file.content :
                      k \in DOMAIN config /\ config[k] = file.content[k]

\* the part of C19 that is about a directory that exists
C19_LoadInDirectory ==
    (lastOp.op = "load" /\ lastOp.result = "returned") =>
        /\ file.kind \in {"missing", "unparsable"} => config = DefaultConfig
        /\ file.kind = "object" =>
               /\ \A k \in RecognizedKeys \ DOMAIN file.content :
                      k \in DOMAIN config /\ config[k] = DefaultConfig[k]
               /\ \A k \in DOMAIN file.content :
                      k \in DOMAIN config /\ config[k] = file.content[k]

\* C20: a set returns, leaves the value under the key in memory and, when
\* the write went through, the whole configuration in the file; the get of
\* the same key that follows returns the value, whatever the write did
C20_SetPersists ==
    /\ lastOp.op = "set" =>
           /\ lastOp.result = "returned"
           /\ lastOp.profile.key \in DOMAIN config
           /\ config[lastOp.profile.key] = lastOp.profile.value
           /\ lastOp.driver = "written" => file = Object(config)
    /\ (lastOp.op = "get" /\ prevOp.op = "set"
            /\ lastOp.profile.key = prevOp.profile.key) =>
           lastOp.profile.value = prevOp.profile.value

\* a set whose write failed, followed by the get of its key, on a key that
\* held another value before
C20_Witness ==
    /\ lastOp.op = "get"
    /\ prevOp.op = "set"
    /\ prevOp.driver # "written"
    /\ lastOp.profile.key = prevOp.profile.key
    /\ lastOp.profile.value = StoredValue(lastOp.profile.key)
    /\ file.kind = "missing"

\* the contents of the chart area that are a chart
Charts == {"plot", "matrix", "notice"}

\* C21: when update_chart ends in a failure of the builder while a chart is
\* shown, the chart area shows afterwards what it showed before
C21_FailureKeepsChart ==
    [][(lastOp.result \in Charts /\ lastOp'.driver = "raised")
          => lastOp'.result = lastOp.result]_vars

\* the item a handler of the browser was called on, before and after
ItemBefore == ItemAt(lastOp'.query)

ItemAfter ==
    IF Len(lastOp'.query) = 1 THEN schema_browser'.tree[lastOp'.query[1]]
    ELSE schema_browser'.tree[lastOp'.query[1]].children[lastOp'.query[2]]

Refreshes == {"refresh_schema_item", "refresh_table_item"}

\* C22: after a failed load of a node's children, the next expansion of the
\* node and the next refresh of it issue the catalog query again
C22_FailedLoadRetried ==
    [][/\ lastOp'.op = "on_item_expanded" =>
              (ItemBefore.load = "failed" => lastOp'.n = 1)
       /\ lastOp'.op \in Refreshes =>
              (ItemBefore.load = "failed" => lastOp'.n = 1)]_vars

Range(seq) == {seq[i] : i \in 1..Len(seq)}

\* name.startswith(prefix)
StartsWith(name, prefix) ==
    Len(name) >= Len(prefix) /\ SubSeq(name, 1, Len(prefix)) = prefix

\* C28: after populate_schema the top-level items are, in name order, the
\* schemas of the database whose names neither begin with "pg_" nor are
\* "information_schema"
C28_SchemaList ==
    (lastOp.op = "populate_schema" /\ lastOp.result = "loaded") =>
        [k \in 1..Len(schema_browser.tree) |-> schema_browser.tree[k].text]
            = Sorted({name \in Range(lastOp.query) :
                         /\ ~StartsWith(name, <<"p", "g", "_">>)
                         /\ name # information_schema})

\* C24: a switch between the tabs does not run the type inference
C24_InferredOncePerResult ==
    lastOp.op = "on_tab_changed" => lastOp.result # "inferred"

\* the X column of the held table and the number of rows of each value
HeldX == Column(viz_data.rows, ColumnIndex(viz_data, viz_data.x))

Frequency(g) == Cardinality({i \in 1..Len(HeldX) : HeldX[i] = g})

\* C25: a bar chart drawn of an X column with more than 20 distinct values
\* shows 20 values, none of them less frequent than a value left out; a pie
\* chart of more than 10 categories shows 10
C25_TopCategories ==
    (viz_data.held /\ lastOp.result = "plot") =>
        /\ (viz_data.chart_type = "Bar Chart" /\ Cardinality(Groups(HeldX)) > 20) =>
               /\ lastOp.n = 20
               /\ \A g \in BarCategories(viz_data), h \in Groups(HeldX) \ BarCategories(viz_data) :
                      Frequency(g) >= Frequency(h)
        /\ (viz_data.chart_type = "Pie Chart" /\ Cardinality(Groups(HeldX)) > 10) =>
               lastOp.n = 10

\* C26: an export writes the column names, then one row per row of the
\* grid; a cell that holds a value is written as its display text, also
\* when that text is NULL, and a null cell as an empty field
C26_CsvExport ==
    (lastOp.op = "export_to_csv" /\ lastOp.message = "exported") =>
        /\ Len(lastOp.result) = Len(results_view.rows) + 1
        /\ lastOp.result[1] = results_view.columns
        /\ \A x \in Cells(results_view) :
               LET item == results_view.rows[x[1]][x[2]]
                   field == lastOp.result[x[1] + 1][x[2]]
               IN  field = IF item.user = Null THEN <<>> ELSE item.text

\* the default of a selector for the new table: the first column of one of
\* the types, else the first column
DefaultColumn(view, tags) ==
    IF \E i \in 1..Len(view.types) : view.types[i].tag \in tags
    THEN view.types[CHOOSE i \in 1..Len(view.types) :
                        /\ view.types[i].tag \in tags
                        /\ \A j \in 1..(i - 1) : view.types[j].tag \notin tags].name
    ELSE view.columns[1]

\* C27: when set_data gives a table to a view whose selectors are filled,
\* X, Y and group stay if the new table has a column of that name and else
\* go to their defaults; title and labels are those of the new selection,
\* whatever they were
C27_SelectionsKeptByName ==
    [][(lastOp'.op = "set_data" /\ viz_data'.held /\ viz_data.items # <<>>) =>
          /\ viz_data'.x = IF viz_data.x \in Range(viz_data'.columns) THEN viz_data.x
                           ELSE DefaultColumn(viz_data', {"categorical", "date"})
          /\ viz_data'.y = IF viz_data.y \in Range(viz_data'.columns) THEN viz_data.y
                           ELSE DefaultColumn(viz_data', {"numeric"})
          /\ viz_data'.group = IF viz_data.group \in Range(viz_data'.columns)
                               THEN viz_data.group ELSE "None"
          /\ viz_data'.title = <<viz_data'.y, " by ", viz_data'.x>>
          /\ viz_data'.x_label = viz_data'.x
          /\ viz_data'.y_label = viz_data'.y]_vars

\* a table arrived and X, Y and the group are not the defaults of the table:
\* they were kept
C27_Witness ==
    /\ lastOp.op = "set_data"
    /\ viz_data.held
    /\ viz_data.x # DefaultColumn(viz_data, {"categorical", "date"})
    /\ viz_data.y # DefaultColumn(viz_data, {"numeric"})
    /\ viz_data.group # "None"

\* C29: the connection of the query editor is the session the main window
\* holds: both are absent or both are the same session
C29_EditorHoldsSession == query_editor = db_connection

\* a second session was opened from the recent menu while the first was held
C29_Witness ==
    /\ lastOp.op = "connect_to_recent"
    /\ lastOp.result = "connected"
    /\ db_connection = 2
    /\ query_editor = 2

\* C30: the table the visualization holds, if any, is the result set the
\* results view shows
C30_NoStaleTable ==
    viz_data.held =>
        /\ viz_data.columns = results_view.columns
        /\ viz_data.rows = UserRows(results_view)

====
